---------------------------- MODULE Spec2Model ----------------------------
(***************************************************************************)
(* Model of the commission platform's rule store (src/src/managers.py),    *)
(* record validator (src/src/validators.py) and batch metrics              *)
(* (src/src/analyzers.py).                                                 *)
(*                                                                         *)
(* Numbers.  The program computes with Python floats (IEEE-754 binary64,   *)
(* round to nearest, ties to even) and Python ints.  A float is modelled   *)
(* bit for bit as a record [s, m, e] of value (-1)^s * m * 2^e, where the  *)
(* significand m is a natural number of exactly 53 bits (or 0) held as a   *)
(* little-endian sequence of 15-bit limbs, because TLC's integers are 32   *)
(* bits wide.  Exponent range (overflow to inf, subnormals) is not         *)
(* modelled: every value the model computes lies between 2^-40 and 2^40.   *)
(***************************************************************************)
EXTENDS Integers, Sequences, FiniteSets

----------------------------------------------------------------------------
(* Natural numbers of arbitrary size: little-endian limbs, no high zero.   *)

Base == 2 ^ 15

\* significand width of binary64
MantBits == 53

RECURSIVE IntBitLen(_)
IntBitLen(n) == IF n = 0 THEN 0 ELSE 1 + IntBitLen(n \div 2)

LimbBits == IntBitLen(Base) - 1

RECURSIVE BNorm(_)
BNorm(a) ==
    IF a = <<>> THEN a
    ELSE IF a[Len(a)] = 0 THEN BNorm(SubSeq(a, 1, Len(a) - 1))
    ELSE a

RECURSIVE BFromInt(_)
BFromInt(n) ==
    IF n = 0 THEN <<>> ELSE <<n % Base>> \o BFromInt(n \div Base)

RECURSIVE BToInt(_)
BToInt(a) ==
    IF a = <<>> THEN 0 ELSE Head(a) + Base * BToInt(Tail(a))

Limb(a, i) == IF i \in 1..Len(a) THEN a[i] ELSE 0

RECURSIVE BAddC(_, _, _, _)
BAddC(a, b, i, c) ==
    IF i > Len(a) /\ i > Len(b)
    THEN (IF c = 0 THEN <<>> ELSE <<c>>)
    ELSE LET s == Limb(a, i) + Limb(b, i) + c
         IN  <<s % Base>> \o BAddC(a, b, i + 1, s \div Base)

BAdd(a, b) == BAddC(a, b, 1, 0)

RECURSIVE BSubC(_, _, _, _)
BSubC(a, b, i, c) ==
    IF i > Len(a) THEN <<>>
    ELSE LET s == Limb(a, i) - Limb(b, i) - c
         IN  IF s < 0 THEN <<s + Base>> \o BSubC(a, b, i + 1, 1)
             ELSE <<s>> \o BSubC(a, b, i + 1, 0)

\* a - b for a >= b
BSub(a, b) == BNorm(BSubC(a, b, 1, 0))

RECURSIVE BCmpAt(_, _, _)
BCmpAt(a, b, i) ==
    IF i = 0 THEN 0
    ELSE IF a[i] < b[i] THEN -1
    ELSE IF a[i] > b[i] THEN 1
    ELSE BCmpAt(a, b, i - 1)

\* -1, 0, 1 as a < b, a = b, a > b
BCmp(a, b) ==
    IF Len(a) < Len(b) THEN -1
    ELSE IF Len(a) > Len(b) THEN 1
    ELSE BCmpAt(a, b, Len(a))

RECURSIVE BMulSmallC(_, _, _, _)
BMulSmallC(a, k, i, c) ==
    IF i > Len(a) THEN (IF c = 0 THEN <<>> ELSE <<c>>)
    ELSE LET p == a[i] * k + c
         IN  <<p % Base>> \o BMulSmallC(a, k, i + 1, p \div Base)

\* a * k for 0 <= k <= Base
BMulSmall(a, k) == IF k = 0 THEN <<>> ELSE BMulSmallC(a, k, 1, 0)

BShiftLimbs(a, n) == IF a = <<>> THEN a ELSE [i \in 1..n |-> 0] \o a

RECURSIVE BMulAt(_, _, _)
BMulAt(a, b, i) ==
    IF i > Len(b) THEN <<>>
    ELSE BAdd(BShiftLimbs(BMulSmall(a, b[i]), i - 1), BMulAt(a, b, i + 1))

BMul(a, b) == BMulAt(a, b, 1)

\* a * 2^k
BShl(a, k) ==
    LET w == k \div LimbBits
        p == 2 ^ (k % LimbBits)
    IN  BNorm([i \in 1..(Len(a) + w + 1) |->
                  IF i <= w THEN 0
                  ELSE ((Limb(a, i - w) * p) % Base) + ((Limb(a, i - w - 1) * p) \div Base)])

\* quotient and remainder of a by d, 0 < d <= Base
RECURSIVE BDivRem(_, _)
BDivRem(a, d) ==
    IF a = <<>> THEN [q |-> <<>>, r |-> 0]
    ELSE LET hi  == BDivRem(Tail(a), d)
             cur == hi.r * Base + Head(a)
         IN  [q |-> BNorm(<<cur \div d>> \o hi.q), r |-> cur % d]

\* floor(a / 2^k)
BShr(a, k) ==
    LET w == k \div LimbBits
        p == 2 ^ (k % LimbBits)
    IN  IF w >= Len(a) THEN <<>>
        ELSE BNorm([i \in 1..(Len(a) - w) |->
                       (a[i + w] \div p) + ((Limb(a, i + w + 1) % p) * (Base \div p))])

\* a is a multiple of 2^k
BLowZero(a, k) ==
    /\ \A i \in 1..(k \div LimbBits) : Limb(a, i) = 0
    /\ (Limb(a, (k \div LimbBits) + 1) % (2 ^ (k % LimbBits))) = 0

BBitLen(a) ==
    IF a = <<>> THEN 0 ELSE LimbBits * (Len(a) - 1) + IntBitLen(a[Len(a)])

\* bit k of a, bit 0 the lowest
BBit(a, k) == (Limb(a, k \div LimbBits + 1) \div 2 ^ (k % LimbBits)) % 2

----------------------------------------------------------------------------
(* Python float: binary64, round to nearest even.                          *)

FZero(s) == [s |-> s, m |-> <<>>, e |-> 0]

\* The float nearest to (-1)^s * m * 2^e (m a big natural); sticky tells
\* that the exact value lies strictly above m * 2^e and below (m+1) * 2^e.
FRound(s, m, e, sticky) ==
    LET L == BBitLen(m)
    IN  IF L = 0 THEN FZero(s)
        ELSE IF L <= MantBits
        THEN [s |-> s, m |-> BShl(m, MantBits - L), e |-> e - (MantBits - L)]
        ELSE LET sh   == L - MantBits
                 q    == BShr(m, sh)
                 half == BBit(m, sh - 1) = 1
                 rest == sticky \/ ~BLowZero(m, sh - 1)
                 up   == half /\ (rest \/ BBit(q, 0) = 1)
                 q1   == IF up THEN BAdd(q, <<1>>) ELSE q
             IN  IF BBitLen(q1) > MantBits
                 THEN [s |-> s, m |-> BShr(q1, 1), e |-> e + sh + 1]
                 ELSE [s |-> s, m |-> q1, e |-> e + sh]

\* float(n) for a Python int n
FFromInt(n) ==
    IF n < 0 THEN FRound(1, BFromInt(-n), 0, FALSE)
    ELSE FRound(0, BFromInt(n), 0, FALSE)

\* The float a decimal literal n * 10^-k denotes (0 <= k <= 4)
FFromDec(n, k) ==
    LET a  == IF n < 0 THEN -n ELSE n
        dr == BDivRem(BShl(BFromInt(a), 5 * LimbBits), 10 ^ k)
    IN  FRound(IF n < 0 THEN 1 ELSE 0, dr.q, -(5 * LimbBits), dr.r # 0)

FNeg(x) == [x EXCEPT !.s = 1 - x.s]

FAbs(x) == [x EXCEPT !.s = 0]

FMul(x, y) ==
    LET s == (x.s + y.s) % 2
    IN  IF x.m = <<>> \/ y.m = <<>> THEN FZero(s)
        ELSE FRound(s, BMul(x.m, y.m), x.e + y.e, FALSE)

FAdd(x, y) ==
    IF x.m = <<>> THEN (IF y.m = <<>> THEN FZero(IF x.s = 1 /\ y.s = 1 THEN 1 ELSE 0) ELSE y)
    ELSE IF y.m = <<>> THEN x
    ELSE LET e  == IF x.e < y.e THEN x.e ELSE y.e
             mx == BShl(x.m, x.e - e)
             my == BShl(y.m, y.e - e)
             c  == BCmp(mx, my)
         IN  IF x.s = y.s THEN FRound(x.s, BAdd(mx, my), e, FALSE)
             ELSE IF c = 0 THEN FZero(0)
             ELSE IF c > 0 THEN FRound(x.s, BSub(mx, my), e, FALSE)
             ELSE FRound(y.s, BSub(my, mx), e, FALSE)

FSub(x, y) == FAdd(x, FNeg(y))

\* x / n for a Python int 0 < n <= Base
FDivInt(x, n) ==
    IF x.m = <<>> THEN x
    ELSE LET dr == BDivRem(BShl(x.m, 5 * LimbBits), n)
         IN  FRound(x.s, dr.q, x.e - 5 * LimbBits, dr.r # 0)

\* x > y: by sign, then exponent, then significand (significands are normalised)
FGt(x, y) ==
    IF x.m = <<>> THEN y.m # <<>> /\ y.s = 1
    ELSE IF y.m = <<>> THEN x.s = 0
    ELSE IF x.s # y.s THEN x.s = 0
    ELSE LET c == IF x.e > y.e THEN 1
                  ELSE IF x.e < y.e THEN -1
                  ELSE BCmp(x.m, y.m)
         IN  IF x.s = 0 THEN c > 0 ELSE c < 0

FLt(x, y) == FGt(y, x)

\* int(x): truncation toward zero
FToInt(x) ==
    LET a == IF x.e >= 0 THEN BToInt(BShl(x.m, x.e)) ELSE BToInt(BShr(x.m, -x.e))
    IN  IF x.s = 1 THEN -a ELSE a

\* f"{x:.3f}": the decimal with three places nearest to x (ties to even),
\* as <<sign, whole part, thousandths>>
Format3f(x) ==
    LET p  == BMulSmall(x.m, 1000)
        sh == -x.e
        q  == BShr(p, sh)
        half == BBit(p, sh - 1) = 1
        rest == ~BLowZero(p, sh - 1)
        up == half /\ (rest \/ BBit(q, 0) = 1)
        t  == IF x.e >= 0 THEN BToInt(BShl(p, x.e))
              ELSE BToInt(IF up THEN BAdd(q, <<1>>) ELSE q)
    IN  <<IF x.s = 1 THEN "-" ELSE "", t \div 1000, t % 1000>>

----------------------------------------------------------------------------
(* Python values.                                                          *)

\* A str is the sequence of its characters.  A character is a string of
\* length one; a character that cannot be written in a string of this
\* language is the string "U+XXXX" of its code point.
standard   == <<"s", "t", "a", "n", "d", "a", "r", "d">>
premium    == <<"p", "r", "e", "m", "i", "u", "m">>
enterprise == <<"e", "n", "t", "e", "r", "p", "r", "i", "s", "e">>
gold       == <<"g", "o", "l", "d">>

\* the 29 code points str.strip() removes: U+0009-000D, U+001C-001F, U+0020,
\* U+0085, U+00A0, U+1680, U+2000-200A, U+2028, U+2029, U+202F, U+205F, U+3000
Whitespace ==
    {"\t", "\n", "U+000B", "\f", "\r", "U+001C", "U+001D", "U+001E", "U+001F",
     " ", "U+0085", "U+00A0", "U+1680", "U+2000", "U+2001", "U+2002", "U+2003",
     "U+2004", "U+2005", "U+2006", "U+2007", "U+2008", "U+2009", "U+200A",
     "U+2028", "U+2029", "U+202F", "U+205F", "U+3000"}

RECURSIVE LStrip(_)
LStrip(str) ==
    IF str # <<>> /\ Head(str) \in Whitespace THEN LStrip(Tail(str)) ELSE str

RECURSIVE RStrip(_)
RStrip(str) ==
    IF str # <<>> /\ str[Len(str)] \in Whitespace
    THEN RStrip(SubSeq(str, 1, Len(str) - 1))
    ELSE str

\* str.strip()
Strip(str) == RStrip(LStrip(str))

\* truth value of a str
Truthy(str) == str # <<>>

\* A number is a Python int [t |-> "int", v |-> n] or a Python float
\* [t |-> "float", v |-> x].
PyInt(n) == [t |-> "int", v |-> n]

PyFloat(n, k) == [t |-> "float", v |-> FFromDec(n, k)]

\* float(v)
ToFloat(v) == IF v.t = "int" THEN FFromInt(v.v) ELSE v.v

\* int(v)
ToInt(v) == IF v.t = "int" THEN v.v ELSE FToInt(v.v)

None == [t |-> "None"]

----------------------------------------------------------------------------
(* RulesManager: src/src/managers.py.  A message is the tuple of its       *)
(* pieces; the mark it starts with, U+2705 or U+274C, is a piece named by  *)
(* its code point.                                                         *)

CheckMark == "U+2705"

CrossMark == "U+274C"

\* a dict: a function on its set of keys
EmptyDict == [k \in {} |-> None]

DictSet(d, key, val) == [k \in DOMAIN d \cup {key} |-> IF k = key THEN val ELSE d[k]]

DictDel(d, key) == [k \in DOMAIN d \ {key} |-> d[k]]

DefaultRules ==
    [k \in {standard, premium, enterprise} |->
        IF k = standard THEN [rate |-> FFromDec(5, 2), threshold |-> 0]
        ELSE IF k = premium THEN [rate |-> FFromDec(7, 2), threshold |-> 100000]
        ELSE [rate |-> FFromDec(10, 2), threshold |-> 500000]]

\* _initialize_rules that seeds the defaults on every run
InitializeRules_Reseed(state) == DictSet(state, "commission_rules", DefaultRules)

\* _initialize_rules: the session state it leaves
InitializeRules(state) ==
    IF "commission_rules" \notin DOMAIN state
    THEN DictSet(state, "commission_rules", DefaultRules)
    ELSE state

\* get_rules
GetRules(state) == state["commission_rules"]

\* add_rule that tests the name without strip()
AddRuleResult_NoStrip(state, tier_name, rate, threshold) ==
    LET rules == state["commission_rules"]
    IN  IF Truthy(tier_name) /\ tier_name \notin DOMAIN rules
        THEN [state |-> [state EXCEPT !["commission_rules"] =
                            DictSet(rules, tier_name,
                                    [rate |-> ToFloat(rate), threshold |-> ToInt(threshold)])],
              ret   |-> <<TRUE, <<CheckMark, " Successfully added '", tier_name, "' tier!">> >>]
        ELSE IF ~Truthy(tier_name)
        THEN [state |-> state, ret |-> <<FALSE, <<CrossMark, " Please enter a tier name!">> >>]
        ELSE [state |-> state,
              ret   |-> <<FALSE, <<CrossMark, " Rule '", tier_name, "' already exists!">> >>]

\* add_rule that does not test whether the name is a key already
AddRuleResult_Overwrite(state, tier_name, rate, threshold) ==
    LET rules == state["commission_rules"]
    IN  IF Truthy(Strip(tier_name))
        THEN [state |-> [state EXCEPT !["commission_rules"] =
                            DictSet(rules, tier_name,
                                    [rate |-> ToFloat(rate), threshold |-> ToInt(threshold)])],
              ret   |-> <<TRUE, <<CheckMark, " Successfully added '", tier_name, "' tier!">> >>]
        ELSE [state |-> state, ret |-> <<FALSE, <<CrossMark, " Please enter a tier name!">> >>]

\* add_rule: the session state it leaves and the pair it returns
AddRuleResult(state, tier_name, rate, threshold) ==
    LET rules == state["commission_rules"]
    IN  IF Truthy(Strip(tier_name)) /\ tier_name \notin DOMAIN rules
        THEN [state |-> [state EXCEPT !["commission_rules"] =
                            DictSet(rules, tier_name,
                                    [rate |-> ToFloat(rate), threshold |-> ToInt(threshold)])],
              ret   |-> <<TRUE, <<CheckMark, " Successfully added '", tier_name, "' tier!">> >>]
        ELSE IF ~Truthy(Strip(tier_name))
        THEN [state |-> state, ret |-> <<FALSE, <<CrossMark, " Please enter a tier name!">> >>]
        ELSE [state |-> state,
              ret   |-> <<FALSE, <<CrossMark, " Rule '", tier_name, "' already exists!">> >>]

\* remove_rule without the test of len(rules)
RemoveRuleResult_NoLenTest(state, tier_name) ==
    LET rules == GetRules(state)
    IN  IF tier_name \in DOMAIN rules
        THEN [state |-> [state EXCEPT !["commission_rules"] = DictDel(rules, tier_name)],
              ret   |-> <<TRUE, <<CheckMark, " Successfully removed '", tier_name, "' tier!">> >>]
        ELSE [state |-> state,
              ret   |-> <<FALSE, <<CrossMark, " Rule '", tier_name, "' not found!">> >>]

\* remove_rule that looks the name up before it tests len(rules)
RemoveRuleResult_LookupFirst(state, tier_name) ==
    LET rules == GetRules(state)
    IN  IF tier_name \notin DOMAIN rules
        THEN [state |-> state,
              ret   |-> <<FALSE, <<CrossMark, " Rule '", tier_name, "' not found!">> >>]
        ELSE IF Cardinality(DOMAIN rules) > 1
        THEN [state |-> [state EXCEPT !["commission_rules"] = DictDel(rules, tier_name)],
              ret   |-> <<TRUE, <<CheckMark, " Successfully removed '", tier_name, "' tier!">> >>]
        ELSE [state |-> state,
              ret   |-> <<FALSE, <<CrossMark, " Cannot remove the last rule! You need at least one commission tier.">> >>]

\* remove_rule: the session state it leaves and the pair it returns
RemoveRuleResult(state, tier_name) ==
    LET rules == GetRules(state)
    IN  IF Cardinality(DOMAIN rules) > 1
        THEN IF tier_name \in DOMAIN rules
             THEN [state |-> [state EXCEPT !["commission_rules"] = DictDel(rules, tier_name)],
                   ret   |-> <<TRUE, <<CheckMark, " Successfully removed '", tier_name, "' tier!">> >>]
             ELSE [state |-> state,
                   ret   |-> <<FALSE, <<CrossMark, " Rule '", tier_name, "' not found!">> >>]
        ELSE [state |-> state,
              ret   |-> <<FALSE, <<CrossMark, " Cannot remove the last rule! You need at least one commission tier.">> >>]

----------------------------------------------------------------------------
(* CommissionValidator: src/src/validators.py                              *)

\* the float literals of validators.py
AcceleratorThreshold == FFromDec(12, 1)

Accelerator == FFromDec(11, 1)

RateTolerance == FFromDec(1, 3)

CommissionCap == FFromDec(15, 2)

FloatZero == FFromInt(0)

\* _get_expected_rate that compares with >=
GetExpectedRate_AtOrOver(state, deal_size, product_tier) ==
    LET rules     == GetRules(state)
        base_rate == rules[product_tier].rate
        limit     == FMul(FFromInt(rules[product_tier].threshold), AcceleratorThreshold)
    IN  IF FGt(deal_size, limit) \/ deal_size = limit
        THEN FMul(base_rate, Accelerator)
        ELSE base_rate

\* _get_expected_rate without the accelerator
GetExpectedRate_NoAccelerator(state, deal_size, product_tier) ==
    GetRules(state)[product_tier].rate

\* _get_expected_rate
GetExpectedRate(state, deal_size, product_tier) ==
    LET rules     == GetRules(state)
        base_rate == rules[product_tier].rate
    IN  IF FGt(deal_size, FMul(FFromInt(rules[product_tier].threshold), AcceleratorThreshold))
        THEN FMul(base_rate, Accelerator)
        ELSE base_rate

UnknownTier(tier) == <<"Unknown product tier: ", tier>>

RateMismatch(expected, got) ==
    <<"Rate mismatch: expected ", Format3f(expected), ", got ", Format3f(got)>>

CapExceeded == <<"Commission exceeds 15% cap">>

NegativeDeal == <<"Negative deal size">>

\* validate that goes on with the cap and sign checks after an unknown tier
Validate_NoReturn(state, row) ==
    LET known == row.product_tier \in DOMAIN GetRules(state)
        rule0 == IF known THEN <<>> ELSE <<UnknownTier(row.product_tier)>>
        rule1 == IF known
                    /\ FGt(FAbs(FSub(row.commission_rate,
                                     GetExpectedRate(state, row.deal_size, row.product_tier))),
                           RateTolerance)
                 THEN <<RateMismatch(GetExpectedRate(state, row.deal_size, row.product_tier),
                                     row.commission_rate)>>
                 ELSE <<>>
        rule2 == IF FGt(row.commission_amount, FMul(row.deal_size, CommissionCap))
                 THEN <<CapExceeded>>
                 ELSE <<>>
        rule3 == IF FLt(row.deal_size, FloatZero) THEN <<NegativeDeal>> ELSE <<>>
    IN  rule0 \o rule1 \o rule2 \o rule3

\* validate that checks the cap only when the rate matched (elif)
Validate_Elif(state, row) ==
    IF row.product_tier \notin DOMAIN GetRules(state)
    THEN <<UnknownTier(row.product_tier)>>
    ELSE LET expected_rate == GetExpectedRate(state, row.deal_size, row.product_tier)
             rule1 == IF FGt(FAbs(FSub(row.commission_rate, expected_rate)), RateTolerance)
                      THEN <<RateMismatch(expected_rate, row.commission_rate)>>
                      ELSE <<>>
             rule2 == IF rule1 = <<>>
                         /\ FGt(row.commission_amount, FMul(row.deal_size, CommissionCap))
                      THEN <<CapExceeded>>
                      ELSE <<>>
             rule3 == IF FLt(row.deal_size, FloatZero) THEN <<NegativeDeal>> ELSE <<>>
         IN  rule1 \o rule2 \o rule3

\* validate: the list of issues of one row
Validate(state, row) ==
    IF row.product_tier \notin DOMAIN GetRules(state)
    THEN <<UnknownTier(row.product_tier)>>
    ELSE LET expected_rate == GetExpectedRate(state, row.deal_size, row.product_tier)
             rule1 == IF FGt(FAbs(FSub(row.commission_rate, expected_rate)), RateTolerance)
                      THEN <<RateMismatch(expected_rate, row.commission_rate)>>
                      ELSE <<>>
             rule2 == IF FGt(row.commission_amount, FMul(row.deal_size, CommissionCap))
                      THEN <<CapExceeded>>
                      ELSE <<>>
             rule3 == IF FLt(row.deal_size, FloatZero)
                      THEN <<NegativeDeal>>
                      ELSE <<>>
         IN  rule1 \o rule2 \o rule3

----------------------------------------------------------------------------
(* DataAnalyzer: src/src/analyzers.py                                      *)

\* float NaN, the mean of no value
NaN == [s |-> 0, m |-> <<>>, e |-> 1]

\* Series.sum() of a float64 column: numpy's add.reduce, which for fewer
\* than eight values adds them to 0.0 from left to right
RECURSIVE ColumnSum(_, _)
ColumnSum(df, col) ==
    IF df = <<>> THEN FZero(0)
    ELSE FAdd(ColumnSum(SubSeq(df, 1, Len(df) - 1), col), df[Len(df)][col])

\* Series.mean()
ColumnMean(df, col) ==
    IF df = <<>> THEN NaN ELSE FDivInt(ColumnSum(df, col), Len(df))

\* [issue for row in df.iterrows() for issue in validator.validate(row[1])]
RECURSIVE AllIssues(_, _)
AllIssues(state, df) ==
    IF df = <<>> THEN <<>>
    ELSE Validate(state, Head(df)) \o AllIssues(state, Tail(df))

\* the rows of df that have an issue
RECURSIVE FailingRows(_, _)
FailingRows(state, df) ==
    IF df = <<>> THEN <<>>
    ELSE (IF Validate(state, Head(df)) = <<>> THEN <<>> ELSE <<Head(df)>>)
         \o FailingRows(state, Tail(df))

\* calculate_metrics that counts the rows with an issue
CalculateMetrics_CountRows(state, df) ==
    [total_commissions |-> ColumnSum(df, "commission_amount"),
     average_rate      |-> ColumnMean(df, "commission_rate"),
     total_deals       |-> Len(df),
     flagged_count     |-> Len(FailingRows(state, df))]

\* calculate_metrics
CalculateMetrics(state, df) ==
    [total_commissions |-> ColumnSum(df, "commission_amount"),
     average_rate      |-> ColumnMean(df, "commission_rate"),
     total_deals       |-> Len(df),
     flagged_count     |-> Len(AllIssues(state, df))]


----------------------------------------------------------------------------
(* The session: st.session_state, the last call made and what it returned. *)
(* A returned value is held under the name of its Python type: tuple for   *)
(* (success, message), list for the issues, float for a rate, dict for the *)
(* metrics; a raised KeyError is held under KeyError with the missing key. *)

VARIABLES session_state, call, ret

vars == <<session_state, call, ret>>

\* longest batch handed to calculate_metrics
MaxBatch == 2

\* Inputs of the rule store's specification SpecRules: tier names given to
\* add_rule and remove_rule, (rate, threshold) pairs given to add_rule
AddNames ==
    {standard, gold, <<" ">> \o gold, <<"\r">> \o gold \o <<"U+00A0">>,
     <<>>, <<" ", "\t">>, <<"\r">>, <<"\f", "U+3000">>}

RemoveNames == AddNames \cup {premium, enterprise}

AddValues ==
    {<<PyFloat(5, 2), PyInt(100000)>>, <<PyInt(1), PyFloat(19, 1)>>}

\* Inputs of the whole session's specification Spec
SessionAddNames == {standard, gold}

SessionRemoveNames == {standard, premium, enterprise, gold}

SessionAddValues == {<<PyFloat(5, 2), PyInt(100000)>>}

Row(tier, deal_size, rate_thousandths, amount) ==
    [product_tier      |-> tier,
     deal_size         |-> FFromInt(deal_size),
     commission_rate   |-> FFromDec(rate_thousandths, 3),
     commission_amount |-> FFromInt(amount)]

\* rows given to validate
Rows ==
    UNION {
        {Row(t, 10000, r, a) : r \in {50, 55}, a \in {1500, 2000}}
        \cup {Row(t, 50000, r, 2500) : r \in {50, 55}}
        \cup {Row(t, d, r, 6000) : d \in {120000, 120001}, r \in {50, 55}}
        \cup {Row(t, -1000, 50, a) : a \in {-150, -50}}
        : t \in {standard, gold}}

\* rows of the batches given to calculate_metrics
BatchRows == {Row(standard, 10000, 50, 2000), Row(gold, 50000, 50, 2500)}

\* (deal_size, product_tier) pairs given to _get_expected_rate
RateInputs ==
    {<<FFromInt(d), t>> : d \in {-1000, 0, 50000, 120000, 120001},
                          t \in {standard, gold}}

Batches == UNION {[1..n -> BatchRows] : n \in 0..MaxBatch}

Init ==
    /\ session_state = EmptyDict
    /\ call = [op |-> "start"]
    /\ ret = None

\* RulesManager(), as CommissionPlatform.__init__ runs it on every script run
RulesManagerInit ==
    /\ session_state' = InitializeRules(session_state)
    /\ call' = [op |-> "__init__"]
    /\ ret' = None

\* the methods below are called on a constructed RulesManager
Constructed == "commission_rules" \in DOMAIN session_state

AddRule(tier_name, rate, threshold) ==
    /\ Constructed
    /\ LET r == AddRuleResult(session_state, tier_name, rate, threshold)
       IN  /\ session_state' = r.state
           /\ ret' = [tuple |-> r.ret]
    /\ call' = [op |-> "add_rule", tier_name |-> tier_name, rate |-> rate,
                threshold |-> threshold]

RemoveRule(tier_name) ==
    /\ Constructed
    /\ LET r == RemoveRuleResult(session_state, tier_name)
       IN  /\ session_state' = r.state
           /\ ret' = [tuple |-> r.ret]
    /\ call' = [op |-> "remove_rule", tier_name |-> tier_name]

ValidateRow(row) ==
    /\ Constructed
    /\ ret' = [list |-> Validate(session_state, row)]
    /\ call' = [op |-> "validate", row |-> row]
    /\ UNCHANGED session_state

\* validator._get_expected_rate called on its own; rules[product_tier] raises
\* KeyError for a tier that is no key
ExpectedRate(deal_size, product_tier) ==
    /\ Constructed
    /\ ret' = IF product_tier \in DOMAIN GetRules(session_state)
              THEN [float |-> GetExpectedRate(session_state, deal_size, product_tier)]
              ELSE [KeyError |-> product_tier]
    /\ call' = [op |-> "_get_expected_rate", deal_size |-> deal_size,
                product_tier |-> product_tier]
    /\ UNCHANGED session_state

Metrics(df) ==
    /\ Constructed
    /\ ret' = [dict |-> CalculateMetrics(session_state, df)]
    /\ call' = [op |-> "calculate_metrics", df |-> df]
    /\ UNCHANGED session_state

Next ==
    \/ RulesManagerInit
    \/ \E n \in SessionAddNames, v \in SessionAddValues : AddRule(n, v[1], v[2])
    \/ \E n \in SessionRemoveNames : RemoveRule(n)
    \/ \E row \in Rows : ValidateRow(row)
    \/ \E in \in RateInputs : ExpectedRate(in[1], in[2])
    \/ \E df \in Batches : Metrics(df)

Spec == Init /\ [][Next]_vars

\* the rule store alone, on wider inputs
NextRules ==
    \/ RulesManagerInit
    \/ \E n \in AddNames, v \in AddValues : AddRule(n, v[1], v[2])
    \/ \E n \in RemoveNames : RemoveRule(n)

SpecRules == Init /\ [][NextRules]_vars

----------------------------------------------------------------------------
(* Properties of the rule store, checked under SpecRules.                  *)

\* the policy set before and after a step
Rules == GetRules(session_state)

RulesAfter == GetRules(session_state')

Blank(str) == \A i \in 1..Len(str) : str[i] \in Whitespace

LastRuleMessage ==
    <<CrossMark, " Cannot remove the last rule! You need at least one commission tier.">>

\* C1: once the defaults are seeded, after any add_rule and remove_rule calls
\* the policy set holds at least one tier and every tier name is the key of
\* exactly one entry.
C1_NeverEmptyUniqueNames ==
    Constructed =>
        /\ Cardinality(DOMAIN Rules) >= 1
        /\ Cardinality({<<k, Rules[k]>> : k \in DOMAIN Rules}) = Cardinality(DOMAIN Rules)

\* C1 witness: tiers were removed down to one and the removal of that last
\* tier was refused.
C1_Witness ==
    /\ Constructed
    /\ call.op = "remove_rule"
    /\ DOMAIN Rules = {call.tier_name}
    /\ ret.tuple[1] = FALSE

\* C3: add_rule with an empty or whitespace-only name returns success=False;
\* add_rule with a non-blank name that is no key returns success=True and
\* get_rules() then maps the name, as given, to
\* {rate: float(rate), threshold: int(threshold)}: the int rate 1 is stored
\* as 1.0 and the float threshold 1.9 as 1.
C3_AddRuleStep ==
    call'.op = "add_rule" =>
        /\ Blank(call'.tier_name) => ret'.tuple[1] = FALSE
        /\ ~Blank(call'.tier_name) /\ call'.tier_name \notin DOMAIN Rules =>
              /\ ret'.tuple[1] = TRUE
              /\ call'.tier_name \in DOMAIN RulesAfter
              /\ RulesAfter[call'.tier_name] =
                    [rate |-> ToFloat(call'.rate), threshold |-> ToInt(call'.threshold)]
              /\ call'.rate = PyInt(1) /\ call'.threshold = PyFloat(19, 1) =>
                    RulesAfter[call'.tier_name] = [rate |-> FFromDec(10, 1), threshold |-> 1]

C3_AddRule == [][C3_AddRuleStep]_vars

\* C3 witness: add_rule(" gold", 1, 1.9) succeeded and the padded name is a
\* key mapped to {rate: 1.0, threshold: 1}.
C3_Witness ==
    /\ call = [op |-> "add_rule", tier_name |-> <<" ">> \o gold, rate |-> PyInt(1),
               threshold |-> PyFloat(19, 1)]
    /\ ret.tuple[1] = TRUE
    /\ Rules[<<" ">> \o gold] = [rate |-> FFromDec(10, 1), threshold |-> 1]

\* C4: with exactly one tier remove_rule fails with the last-rule message for
\* every name, the remaining key included; with two or more tiers it succeeds
\* exactly when the name is a key and otherwise fails with the not-found
\* message.
C4_RemoveRuleStep ==
    call'.op = "remove_rule" =>
        IF Cardinality(DOMAIN Rules) = 1
        THEN ret'.tuple = <<FALSE, LastRuleMessage>>
        ELSE /\ ret'.tuple[1] = TRUE <=> call'.tier_name \in DOMAIN Rules
             /\ call'.tier_name \notin DOMAIN Rules =>
                    ret'.tuple = <<FALSE, <<CrossMark, " Rule '", call'.tier_name, "' not found!">> >>

C4_RemoveRule == [][C4_RemoveRuleStep]_vars

\* C4 witness: remove_rule of a name that is no key was refused with the
\* last-rule message on a policy set of one tier.
C4_Witness ==
    /\ Constructed
    /\ call.op = "remove_rule"
    /\ Cardinality(DOMAIN Rules) = 1
    /\ call.tier_name \notin DOMAIN Rules
    /\ ret.tuple = <<FALSE, LastRuleMessage>>

\* C5: initialization seeds the defaults only in a session that has no policy
\* set; run again on a session that has one, it leaves the policy set exactly
\* as it was.
C5_InitStep ==
    call'.op = "__init__" =>
        IF Constructed THEN session_state' = session_state
        ELSE RulesAfter = DefaultRules

C5_IdempotentInit == [][C5_InitStep]_vars

\* C5 witness: RulesManager() was constructed again after the policy set had
\* lost the default "standard" and gained "gold", and both changes are kept.
C5_Witness ==
    /\ call = [op |-> "__init__"]
    /\ standard \notin DOMAIN Rules
    /\ gold \in DOMAIN Rules

\* C10: a call of add_rule or remove_rule that returns success=False leaves
\* the policy set as it was; one that returns success=True inserts,
\* respectively deletes, the entry of the named tier and leaves every other
\* entry as it was; add_rule on a name that is a key fails and overwrites
\* nothing.
C10_FrameStep ==
    call'.op \in {"add_rule", "remove_rule"} =>
        /\ ret'.tuple[1] = FALSE => session_state' = session_state
        /\ ret'.tuple[1] = TRUE =>
              /\ DOMAIN session_state' = DOMAIN session_state
              /\ \A k \in (DOMAIN Rules \cup DOMAIN RulesAfter) \ {call'.tier_name} :
                    /\ k \in DOMAIN Rules
                    /\ k \in DOMAIN RulesAfter
                    /\ RulesAfter[k] = Rules[k]
              /\ IF call'.op = "add_rule"
                 THEN call'.tier_name \notin DOMAIN Rules /\ call'.tier_name \in DOMAIN RulesAfter
                 ELSE call'.tier_name \in DOMAIN Rules /\ call'.tier_name \notin DOMAIN RulesAfter
        /\ call'.op = "add_rule" /\ call'.tier_name \in DOMAIN Rules =>
              ret'.tuple[1] = FALSE /\ RulesAfter = Rules

C10_Frame == [][C10_FrameStep]_vars

\* C10 witness: add_rule("standard", 1, 1.9) on a policy set that holds the
\* default "standard" was refused and the default entry is as seeded.
C10_Witness ==
    /\ call = [op |-> "add_rule", tier_name |-> standard, rate |-> PyInt(1),
               threshold |-> PyFloat(19, 1)]
    /\ ret.tuple = <<FALSE, <<CrossMark, " Rule '", standard, "' already exists!">> >>
    /\ Rules[standard] = DefaultRules[standard]
    /\ Cardinality(DOMAIN Rules) = 2

----------------------------------------------------------------------------
(* Properties of validation and metrics, checked under Spec.               *)

Range(seq) == {seq[i] : i \in 1..Len(seq)}

StandardIsDefault ==
    /\ Constructed
    /\ standard \in DOMAIN Rules
    /\ Rules[standard] = [rate |-> FFromDec(5, 2), threshold |-> 0]

\* C2, as claimed: validate of {product_tier: "standard", deal_size: 50000,
\* commission_rate: 0.05, commission_amount: 2500} under
\* standard = {rate: 0.05, threshold: 0} returns no issue.
C2_Original ==
    call = [op |-> "validate", row |-> Row(standard, 50000, 50, 2500)] /\ StandardIsDefault =>
        ret.list = <<>>

\* C2, amended: under standard = {rate: 0.05, threshold: 0} the deal of 50000
\* is over 0 * 1.2, the expected rate is the accelerated one, and validate of
\* that record returns exactly one issue,
\* "Rate mismatch: expected 0.055, got 0.050".
C2_RateMismatch ==
    call = [op |-> "validate", row |-> Row(standard, 50000, 50, 2500)] /\ StandardIsDefault =>
        ret.list = << <<"Rate mismatch: expected ", <<"", 0, 55>>, ", got ", <<"", 0, 50>> >> >>

\* C2 witness: that record was validated under the default "standard" tier and
\* one issue came back.
C2_Witness ==
    /\ call = [op |-> "validate", row |-> Row(standard, 50000, 50, 2500)]
    /\ StandardIsDefault
    /\ Len(ret.list) = 1

\* C6: validate of a row whose product_tier is no key of the policy set at the
\* time of the call returns the unknown-tier issue naming the tier and nothing
\* else, whatever the row's other fields; for a tier that is a key (a removed
\* tier added again included) no unknown-tier issue is returned.
C6_UnknownTier ==
    call.op = "validate" /\ Constructed =>
        IF call.row.product_tier \notin DOMAIN Rules
        THEN ret.list = << <<"Unknown product tier: ", call.row.product_tier>> >>
        ELSE \A i \in 1..Len(ret.list) : ret.list[i][1] # "Unknown product tier: "

\* C6 witness: "standard" was removed, and a row of that tier with a negative
\* deal size and a commission over the cap got the unknown-tier issue alone.
C6_Witness ==
    /\ call = [op |-> "validate", row |-> Row(standard, -1000, 50, -50)]
    /\ Constructed
    /\ standard \notin DOMAIN Rules
    /\ ret.list = << <<"Unknown product tier: ", standard>> >>

\* the double next above x > 0
NextUp(x) == [x EXCEPT !.m = BAdd(x.m, <<1>>)]

\* C7, as claimed: _get_expected_rate returns base_rate * 1.1 when deal_size
\* is strictly over threshold * 1.2 and base_rate otherwise; for the tier
\* {rate: 0.05, threshold: 100000} it returns 0.05 at 120000 and 0.055 at
\* 120001.
C7_Original ==
    call.op = "_get_expected_rate" /\ Constructed /\ call.product_tier \in DOMAIN Rules =>
        LET rule == Rules[call.product_tier]
        IN  /\ ret.float = IF FToInt(call.deal_size) * 10 > rule.threshold * 12
                     THEN FMul(rule.rate, FFromDec(11, 1))
                     ELSE rule.rate
            /\ rule = [rate |-> FFromDec(5, 2), threshold |-> 100000] =>
                  /\ call.deal_size = FFromInt(120000) => ret.float = FFromDec(5, 2)
                  /\ call.deal_size = FFromInt(120001) => ret.float = FFromDec(55, 3)

\* C7, amended: _get_expected_rate returns the float product base_rate * 1.1
\* when deal_size is strictly over threshold * 1.2 and base_rate otherwise;
\* for the tier {rate: 0.05, threshold: 100000} it returns 0.05 at 120000
\* and, at 120001, the float 0.05 * 1.1 = 0.05500000000000001, which is the
\* double next above 0.055 and reads 0.055 to three places.
C7_ExpectedRate ==
    call.op = "_get_expected_rate" /\ Constructed /\ call.product_tier \in DOMAIN Rules =>
        LET rule == Rules[call.product_tier]
        IN  /\ ret.float = IF FToInt(call.deal_size) * 10 > rule.threshold * 12
                     THEN FMul(rule.rate, FFromDec(11, 1))
                     ELSE rule.rate
            /\ rule = [rate |-> FFromDec(5, 2), threshold |-> 100000] =>
                  /\ call.deal_size = FFromInt(120000) => ret.float = FFromDec(5, 2)
                  /\ call.deal_size = FFromInt(120001) =>
                        /\ ret.float = NextUp(FFromDec(55, 3))
                        /\ Format3f(ret.float) = <<"", 0, 55>>

\* C7 witness: _get_expected_rate(120001, "gold") was called with
\* gold = {rate: 0.05, threshold: 100000} and returned the accelerated rate.
C7_Witness ==
    /\ call = [op |-> "_get_expected_rate", deal_size |-> FFromInt(120001),
               product_tier |-> gold]
    /\ Constructed
    /\ gold \in DOMAIN Rules
    /\ Rules[gold] = [rate |-> FFromDec(5, 2), threshold |-> 100000]
    /\ ret.float # FFromDec(5, 2)

\* C8: for a row whose product_tier is a key, validate returns the
\* "Commission exceeds 15% cap" issue exactly when commission_amount is over
\* 15% of deal_size (in exact arithmetic: 100 * amount > 15 * deal_size),
\* with or without a rate mismatch before it; the row {deal_size: 10000,
\* commission_amount: 2000, commission_rate: 0.05, product_tier: "standard"}
\* under threshold 0 gets it.
C8_CapIssue ==
    call.op = "validate" /\ Constructed /\ call.row.product_tier \in DOMAIN Rules =>
        /\ <<"Commission exceeds 15% cap">> \in Range(ret.list)
              <=> 100 * FToInt(call.row.commission_amount) > 15 * FToInt(call.row.deal_size)
        /\ call.row = Row(standard, 10000, 50, 2000) /\ Rules[standard].threshold = 0 =>
              <<"Commission exceeds 15% cap">> \in Range(ret.list)

\* C8 witness: that row was validated under the default "standard" tier and
\* got the rate mismatch followed by the cap issue.
C8_Witness ==
    /\ call = [op |-> "validate", row |-> Row(standard, 10000, 50, 2000)]
    /\ StandardIsDefault
    /\ Len(ret.list) = 2
    /\ ret.list[1][1] = "Rate mismatch: expected "
    /\ ret.list[2] = <<"Commission exceeds 15% cap">>

RECURSIVE IssueCount(_, _, _)
IssueCount(state, df, n) ==
    IF n = 0 THEN 0
    ELSE IssueCount(state, df, n - 1) + Len(Validate(state, df[n]))

\* C9: calculate_metrics of a batch of N rows returns total_deals = N and
\* flagged_count = the sum over the rows of the number of issues validate
\* returns for the row.
C9_Metrics ==
    call.op = "calculate_metrics" =>
        /\ ret.dict.total_deals = Len(call.df)
        /\ ret.dict.flagged_count = IssueCount(session_state, call.df, Len(call.df))

\* C9 witness: a batch of a row with two issues and a row of an unknown tier
\* has flagged_count 3 and total_deals 2.
C9_Witness ==
    /\ call = [op |-> "calculate_metrics",
               df |-> <<Row(standard, 10000, 50, 2000), Row(gold, 50000, 50, 2500)>>]
    /\ StandardIsDefault
    /\ gold \notin DOMAIN Rules
    /\ ret.dict.flagged_count = 3
    /\ ret.dict.total_deals = 2
=============================================================================
